---- MODULE Spec2Model ----
(***************************************************************************)
(* LED position calibrator (src/src/main.rs).                              *)
(*                                                                         *)
(* Three threads share three statics:                                      *)
(*   IMAGE (RwLock<Vec<u8>>) + IMAGE_WIDTH (AtomicUsize)  frame snapshot   *)
(*   SETTINGS (static mut, unsynchronised)                 HSV bounds      *)
(*   POINTS (RwLock<Vec<Rect>>)                            detected rects  *)
(* The acquisition thread decodes frames and publishes them, the detection *)
(* thread runs one detection cycle per 100 ms, the render thread (the      *)
(* eframe update callback) paints POINTS and edits SETTINGS.               *)
(*                                                                         *)
(* The OpenCV calls (cvt_color, in_range, find_contours, moments,          *)
(* bounding_rect) and the epaint Rect helpers are library code: they are   *)
(* modelled by what the libraries compute, at the call sites of main.rs.   *)
(* Floating point values are exact rationals plus NaN and Infinity.        *)
(* Settings are kept in tenths (lower_h = 40.0 is 400).                    *)
(***************************************************************************)
EXTENDS Integers, Sequences, FiniteSets, TLC

(***************************************************************************)
(* Bounds of the model.                                                    *)
(***************************************************************************)
MaxFrames == 2
MaxCycles == 2
MaxPaints == 2
MaxEdits == 1
GridW == 5
GridH == 2
MaxLen == 13
MaxWidth == 3

(***************************************************************************)
(* Small arithmetic helpers.                                               *)
(***************************************************************************)
Abs(a) == IF a < 0 THEN -a ELSE a

Max2(a, b) == IF a >= b THEN a ELSE b

Min2(a, b) == IF a <= b THEN a ELSE b

RECURSIVE GCD(_, _)
GCD(a, b) == IF b = 0 THEN a ELSE GCD(b, a % b)

\* round to nearest of a / b, for a >= 0 and b > 0
DivRound(a, b) == (2 * a + b) \div (2 * b)

\* cvRound of a value in tenths: round to nearest, ties to even
RoundTenths(t) ==
    LET q == t \div 10
        r == t % 10
    IN  IF r < 5 THEN q
        ELSE IF r > 5 THEN q + 1
        ELSE IF q % 2 = 0 THEN q ELSE q + 1

(***************************************************************************)
(* f32/f64 values: an exact rational n/d (d > 0, lowest terms), NaN, or an *)
(* infinity.                                                               *)
(***************************************************************************)
NaN == [k |-> "nan", n |-> 0, d |-> 1]

Inf == [k |-> "inf", n |-> 0, d |-> 1]

Rat(n, d) ==
    LET g == GCD(Abs(n), Abs(d))
        s == IF d < 0 THEN -1 ELSE 1
    IN  [k |-> "fin", n |-> (s * n) \div g, d |-> (s * d) \div g]

FIsFinite(x) == x.k = "fin"

\* variant: a division guarded against a zero divisor, yielding 0
FDivByZeroIsZero(a, b) == IF b = 0 THEN Rat(0, 1) ELSE Rat(a, b)

\* a / b on f64 operands given in the same unit: x/0 is an infinity, 0/0 is NaN
FDiv(a, b) ==
    IF b = 0 THEN (IF a = 0 THEN NaN ELSE Inf) ELSE Rat(a, b)

\* x + s * 0.5 * sign, for an integer s; NaN and infinities propagate
FAddHalf(x, s, sign) ==
    IF x.k # "fin" THEN x ELSE Rat(2 * x.n + sign * s * x.d, 2 * x.d)

(***************************************************************************)
(* Settings (main.rs 43-58), in tenths.                                    *)
(***************************************************************************)
Fields == <<"lower_h", "lower_s", "lower_v", "upper_h", "upper_s", "upper_v">>

InitSettings ==
    [lower_h |-> 400, lower_s |-> 1000, lower_v |-> 1000,
     upper_h |-> 700, upper_s |-> 2550, upper_v |-> 2550]

\* the clamp_range of each DragValue (main.rs 197-202), in tenths
ClampRange(f) == IF f \in {"lower_h", "upper_h"} THEN 0..1800 ELSE 0..2550

(***************************************************************************)
(* Pixels and frames.  A frame is [width, height, data], data the bytes of *)
(* plane 0, row-major, three bytes per pixel.                              *)
(***************************************************************************)
Green == <<0, 255, 0>>

DimGreen == <<0, 90, 0>>

Black == <<0, 0, 0>>

SolidFrame(w, h, px) ==
    [width |-> w, height |-> h,
     data |-> [i \in 1..(w * h * 3) |-> px[((i - 1) % 3) + 1]]]

\* the frames the stream of the interleaving model delivers
FrameSet == {SolidFrame(2, 2, Green), SolidFrame(1, 1, Black)}

(***************************************************************************)
(* Mat::new_rows_cols_with_data (main.rs 107-113): rows x cols, CV_8UC3,   *)
(* over the bytes, step = cols * 3.                                        *)
(***************************************************************************)
NoMat == [rows |-> 0, cols |-> 0, data |-> <<>>]

\* the byte at index i of a vector; past its end the memory is not the
\* vector's any more
ByteAt(v, i) == IF i <= Len(v) THEN v[i] ELSE 0

\* variant: a buffer with a partial last row is refused (no image)
MatRowsWholeOnly(len, width) ==
    IF len % (width * 3) = 0 THEN (len \div width) \div 3 ELSE 0

\* variant: the partial last row counted as a row
MatRowsCeil(len, width) == (len + width * 3 - 1) \div (width * 3)

\* (image_data.len() / width / 3) as i32 (main.rs 108)
MatRows(len, width) == (len \div width) \div 3

\* the Mat is a view of rows * cols * 3 bytes from the vector's pointer
\* (main.rs 111): nothing compares that extent with the vector's length
new_rows_cols_with_data(bytes, width) ==
    LET rows == MatRows(Len(bytes), width)
    IN  [rows |-> rows, cols |-> width,
         data |-> [i \in 1..(rows * width * 3) |-> ByteAt(bytes, i)]]

(***************************************************************************)
(* cvt_color(COLOR_RGB2HSV) on 8-bit pixels (main.rs 119): OpenCV's fixed  *)
(* point conversion, H in 0..179, S and V in 0..255.                       *)
(***************************************************************************)
sdiv_table(i) == IF i = 0 THEN 0 ELSE DivRound(255 * 4096, i)

hdiv_table(i) == IF i = 0 THEN 0 ELSE DivRound(180 * 4096, 6 * i)

RGB2HSV(px) ==
    LET r == px[1]
        g == px[2]
        b == px[3]
        v == Max2(r, Max2(g, b))
        vmin == Min2(r, Min2(g, b))
        diff == v - vmin
        hraw == IF v = r THEN g - b
                ELSE IF v = g THEN b - r + 2 * diff
                ELSE r - g + 4 * diff
        h0 == (hraw * hdiv_table(diff) + 2048) \div 4096
        h == IF h0 < 0 THEN h0 + 180 ELSE h0
        s == (diff * sdiv_table(v) + 2048) \div 4096
    IN  <<h, s, v>>

cvt_color(m) ==
    [rows |-> m.rows, cols |-> m.cols,
     data |-> [i \in 1..Len(m.data) |->
                 LET base == ((i - 1) \div 3) * 3
                 IN  RGB2HSV(<<m.data[base + 1], m.data[base + 2],
                               m.data[base + 3]>>)[((i - 1) % 3) + 1]]]

(***************************************************************************)
(* in_range (main.rs 130): the scalar bounds are converted to integers     *)
(* (cvRound); a channel whose lower bound exceeds its upper bound, or      *)
(* whose bounds miss 0..255, matches nothing; a pixel is 255 in the mask   *)
(* when every channel lies within its bounds, inclusive, and 0 otherwise.  *)
(***************************************************************************)
ScalarBounds(lo, hi) ==
    [c \in 1..3 |->
        LET l == RoundTenths(lo[c])
            u == RoundTenths(hi[c])
        IN  IF l > u \/ l > 255 \/ u < 0 THEN <<1, 0>> ELSE <<l, u>>]

PixelInRange(px, b) == \A c \in 1..3 : b[c][1] <= px[c] /\ px[c] <= b[c][2]

in_range(m, lo, hi) ==
    LET b == ScalarBounds(lo, hi)
    IN  [rows |-> m.rows, cols |-> m.cols,
         data |-> [p \in 1..(m.rows * m.cols) |->
                     IF PixelInRange(<<m.data[3 * p - 2], m.data[3 * p - 1],
                                       m.data[3 * p]>>, b)
                     THEN 255 ELSE 0]]

\* the non-zero pixels of a mask, as <<x, y>>
OnPixels(m) ==
    {<<(p - 1) % m.cols, (p - 1) \div m.cols>> :
        p \in {q \in 1..Len(m.data) : m.data[q] # 0}}

MaskAllOff(m) == \A p \in 1..Len(m.data) : m.data[p] = 0

(***************************************************************************)
(* find_contours(RETR_EXTERNAL, CHAIN_APPROX_SIMPLE) (main.rs 133-141):    *)
(* one contour per 8-connected component of the mask, the outer border of  *)
(* the component followed from its first pixel in raster order (Suzuki's   *)
(* border following).  The chain is kept uncompressed: CHAIN_APPROX_SIMPLE *)
(* drops only points interior to straight segments, which changes neither  *)
(* the polygon moments nor the bounding rectangle.                         *)
(***************************************************************************)
\* the eight neighbours, clockwise on the screen (y grows downwards)
Dir8 == <<<<1, 0>>, <<1, 1>>, <<0, 1>>, <<-1, 1>>,
          <<-1, 0>>, <<-1, -1>>, <<0, -1>>, <<1, -1>>>>

Neighbour(p, d) == <<p[1] + Dir8[d + 1][1], p[2] + Dir8[d + 1][2]>>

Adjacent8(p, q) == p # q /\ Abs(p[1] - q[1]) <= 1 /\ Abs(p[2] - q[2]) <= 1

RECURSIVE Grow(_, _)
Grow(S, on) ==
    LET N == S \cup {q \in on : \E p \in S : Adjacent8(p, q)}
    IN  IF N = S THEN S ELSE Grow(N, on)

RasterFirst(on) ==
    CHOOSE p \in on : \A q \in on : p[2] < q[2] \/ (p[2] = q[2] /\ p[1] <= q[1])

RECURSIVE Components(_)
Components(on) ==
    IF on = {} THEN <<>>
    ELSE LET c == Grow({RasterFirst(on)}, on)
         IN  <<c>> \o Components(on \ c)

\* the first direction, among from + step, from + 2 step, ... (8 of them),
\* in which p has a neighbour in comp; 8 if there is none
RECURSIVE Scan(_, _, _, _, _)
Scan(comp, p, from, step, tried) ==
    IF tried = 8 THEN 8
    ELSE LET d == (from + step + 8) % 8
         IN  IF Neighbour(p, d) \in comp THEN d
             ELSE Scan(comp, p, d, step, tried + 1)

\* Suzuki steps 3.3-3.5: cur was entered with its previous point in
\* direction back; the chain ends when the walk is back at the start and
\* about to repeat its first move
RECURSIVE Follow(_, _, _, _, _, _)
Follow(comp, start, first, cur, back, acc) ==
    LET d == Scan(comp, cur, back, -1, 0)
        nxt == Neighbour(cur, d)
    IN  IF nxt = start /\ cur = first THEN acc
        ELSE Follow(comp, start, first, nxt, (d + 4) % 8, Append(acc, nxt))

BorderChain(comp) ==
    LET start == RasterFirst(comp)
        \* step 3.1: clockwise from the west neighbour
        d1 == Scan(comp, start, 3, 1, 0)
    IN  IF d1 = 8 THEN <<start>>
        ELSE Follow(comp, start, Neighbour(start, d1), start, d1, <<start>>)

find_contours(mask) ==
    LET comps == Components(OnPixels(mask))
    IN  [i \in 1..Len(comps) |-> BorderChain(comps[i])]

(***************************************************************************)
(* moments(contour, false) (main.rs 146): Green's formula over the closed  *)
(* polygon of the contour points.  m00, m10, m01 are kept in sixths        *)
(* (m00 = |a00| / 2, m10 = a10 / 6, m01 = a01 / 6); a polygon of zero area *)
(* has all its moments zero.                                               *)
(***************************************************************************)
RECURSIVE PolySum(_, _, _)
PolySum(c, i, which) ==
    IF i > Len(c) THEN 0
    ELSE LET prev == IF i = 1 THEN c[Len(c)] ELSE c[i - 1]
             dxy == prev[1] * c[i][2] - c[i][1] * prev[2]
             term == IF which = 0 THEN dxy
                     ELSE dxy * (prev[which] + c[i][which])
         IN  term + PolySum(c, i + 1, which)

moments(c) ==
    LET a00 == PolySum(c, 1, 0)
        sgn == IF a00 < 0 THEN -1 ELSE 1
    IN  IF a00 = 0 THEN [m00 |-> 0, m10 |-> 0, m01 |-> 0]
        ELSE [m00 |-> 3 * sgn * a00,
              m10 |-> sgn * PolySum(c, 1, 1),
              m01 |-> sgn * PolySum(c, 1, 2)]

(***************************************************************************)
(* bounding_rect (main.rs 152): the smallest upright rectangle holding     *)
(* every point of the contour, sizes counted in pixels.                    *)
(***************************************************************************)
SetMin(S) == CHOOSE a \in S : \A b \in S : a <= b

SetMax(S) == CHOOSE a \in S : \A b \in S : a >= b

bounding_rect(c) ==
    LET xs == {c[i][1] : i \in 1..Len(c)}
        ys == {c[i][2] : i \in 1..Len(c)}
    IN  [x |-> SetMin(xs), y |-> SetMin(ys),
         width |-> SetMax(xs) - SetMin(xs) + 1,
         height |-> SetMax(ys) - SetMin(ys) + 1]

(***************************************************************************)
(* epaint::Rect (main.rs 155-163): from_center_size stores min and max,    *)
(* centre -/+ size * 0.5; is_finite asks both corners to be finite.        *)
(***************************************************************************)
from_center_size(center, size) ==
    [min |-> <<FAddHalf(center[1], size[1], -1), FAddHalf(center[2], size[2], -1)>>,
     max |-> <<FAddHalf(center[1], size[1], 1), FAddHalf(center[2], size[2], 1)>>]

\* variant: no region is filtered out
is_finite_unchecked(rect) == TRUE

\* Rect::is_finite: min and max are finite (main.rs 163)
is_finite(rect) ==
    /\ FIsFinite(rect.min[1]) /\ FIsFinite(rect.min[2])
    /\ FIsFinite(rect.max[1]) /\ FIsFinite(rect.max[2])

\* the closure of the map (main.rs 145-162)
\* variant: the two first-order moments exchanged
RegionOfSwapped(contour) ==
    LET m == moments(contour)
        rect == bounding_rect(contour)
    IN  from_center_size(<<FDiv(m.m01, m.m00), FDiv(m.m10, m.m00)>>,
                         <<rect.width, rect.height>>)

RegionOf(contour) ==
    LET m == moments(contour)
        rect == bounding_rect(contour)
    IN  from_center_size(<<FDiv(m.m10, m.m00), FDiv(m.m01, m.m00)>>,
                         <<rect.width, rect.height>>)


\* contours.iter().map(..).filter(|rect| rect.is_finite()).collect()
RECURSIVE CollectFrom(_, _)
CollectFrom(contours, i) ==
    IF i > Len(contours) THEN <<>>
    ELSE LET rect == RegionOf(contours[i])
         IN  (IF is_finite(rect) THEN <<rect>> ELSE <<>>)
                \o CollectFrom(contours, i + 1)

CollectRegions(contours) == CollectFrom(contours, 1)

(***************************************************************************)
(* State.                                                                  *)
(***************************************************************************)
VARIABLES
    \* the statics (main.rs 38-58) and their guards
    IMAGE,            \* RwLock<Vec<u8>>: the bytes
    IMAGE_readers,    \* read guards held on IMAGE
    IMAGE_WIDTH,      \* AtomicUsize
    POINTS,           \* RwLock<Vec<Rect>>: the list
    POINTS_readers,   \* read guards held on POINTS
    POINTS_poisoned,  \* a writer of POINTS panicked while holding its guard
    SETTINGS,         \* static mut Settings
    texture,          \* the frame last handed to the display texture (its number)
    \* acquisition thread (main.rs 65-90)
    pcA, frame, nframes,
    \* detection thread (main.rs 92-167)
    pcD, image_data, clone_len, width, image, hsv_image, scalars, mask,
    contours, regions, ncycles,
    \* render thread (main.rs 173-215)
    pcR, painted, paint_len, npaints, nedits,
    \* history, read by the properties only
    frame_log,        \* the byte vectors published, in order
    width_src,        \* number of the frame whose width IMAGE_WIDTH holds
    data_from,        \* number of the frame IMAGE held when the cycle cloned it
    width_from,       \* number of the frame whose width the cycle loaded
    snap_after_exit,  \* the cycle cloned IMAGE after the acquisition thread ended
    det_panic,        \* where and why the detection thread panicked
    edit_log,         \* the settings edits, in order, as <<field, value>>
    lists_log,        \* the lists the detection thread stored
    last_store,       \* the last store: was the mask off, which list it replaced
    scene             \* how the frame under test was painted (SpecDetect)

shared == <<IMAGE, IMAGE_readers, IMAGE_WIDTH, POINTS, POINTS_readers,
            POINTS_poisoned, SETTINGS, texture>>

acq == <<pcA, frame, nframes>>

det == <<pcD, image_data, clone_len, width, image, hsv_image, scalars, mask,
         contours, regions, ncycles>>

render == <<pcR, painted, paint_len, npaints, nedits>>

history == <<frame_log, width_src, data_from, width_from, snap_after_exit,
             det_panic, edit_log, lists_log, last_store, scene>>

vars == <<shared, acq, det, render, history>>

NoFrame == [width |-> 0, height |-> 0, data |-> <<>>]

NoScene == [rects |-> {}, fg |-> Black, bg |-> Black, painted |-> FALSE]

NoPanic == [stage |-> "none", cause |-> "none", after_exit |-> FALSE]

\* the locals of a detection cycle, dropped at the end of the loop body
DropLocals ==
    /\ image_data' = <<>>
    /\ clone_len' = 0
    /\ width' = 0
    /\ image' = NoMat
    /\ hsv_image' = NoMat
    /\ scalars' = <<>>
    /\ mask' = NoMat
    /\ contours' = <<>>
    /\ regions' = <<>>

Init ==
    /\ IMAGE = <<>>
    /\ IMAGE_readers = 0
    /\ IMAGE_WIDTH = 0
    /\ POINTS = <<>>
    /\ POINTS_readers = 0
    /\ POINTS_poisoned = FALSE
    /\ SETTINGS = InitSettings
    /\ texture = 0
    /\ pcA = "open"
    /\ frame = NoFrame
    /\ nframes = 0
    /\ pcD = "sleep"
    /\ image_data = <<>>
    /\ clone_len = 0
    /\ width = 0
    /\ image = NoMat
    /\ hsv_image = NoMat
    /\ scalars = <<>>
    /\ mask = NoMat
    /\ contours = <<>>
    /\ regions = <<>>
    /\ ncycles = 0
    /\ pcR = "idle"
    /\ painted = <<>>
    /\ paint_len = 0
    /\ npaints = 0
    /\ nedits = 0
    /\ frame_log = <<>>
    /\ width_src = 0
    /\ data_from = 0
    /\ width_from = 0
    /\ snap_after_exit = FALSE
    /\ det_panic = NoPanic
    /\ edit_log = <<>>
    /\ lists_log = {}
    /\ last_store = [mask_off |-> FALSE, replaced |-> <<>>]
    /\ scene = NoScene

(***************************************************************************)
(* RwLock: write() waits for the read guards to be dropped.  A write guard *)
(* is taken, used for one assignment and dropped within one statement      *)
(* (main.rs 78, 143), which is one step here, so read() never waits.       *)
(***************************************************************************)
\* variant: the bytes replaced without waiting for the readers
ImageWriteUnguarded == TRUE

\* IMAGE.write() returns (main.rs 78)
ImageWriteAllowed == IMAGE_readers = 0

\* variant: the list replaced without waiting for the readers
PointsWriteUnguarded == TRUE

\* POINTS.write() returns (main.rs 143)
PointsWriteAllowed == POINTS_readers = 0

(***************************************************************************)
(* Acquisition thread (main.rs 65-90).                                     *)
(***************************************************************************)
\* where the thread goes when Decoder::new or a frame's decode fails:
\* expect() panics and the closure is never re-entered
AfterStreamFailure == "dead"

\* Decoder::new_with_options(..) succeeds (main.rs 68-73)
AcqOpen ==
    /\ pcA = "open"
    /\ pcA' = "decode"
    /\ UNCHANGED <<shared, frame, nframes, det, render, history>>

\* .expect("Failed to create decoder") panics (main.rs 73)
AcqOpenFail ==
    /\ pcA = "open"
    /\ pcA' = AfterStreamFailure
    /\ UNCHANGED <<shared, frame, nframes, det, render, history>>

\* variant: the width stored without the bytes being written first
AfterDecodeWidthOnly == "store_width"

\* the first statement of the loop body: the write of the bytes (main.rs 78),
\* which the store of the width follows (main.rs 79)
AfterDecode == "write"

\* the iterator yields a decoded frame (main.rs 75-76)
AcqDecode ==
    /\ pcA = "decode"
    /\ nframes < MaxFrames
    /\ \E f \in FrameSet : frame' = f
    /\ nframes' = nframes + 1
    /\ pcA' = AfterDecode
    /\ UNCHANGED <<shared, det, render, history>>

\* .expect("Failed to decode frame") panics (main.rs 76)
AcqDecodeFail ==
    /\ pcA = "decode"
    /\ pcA' = AfterStreamFailure
    /\ frame' = NoFrame
    /\ UNCHANGED <<shared, nframes, det, render, history>>

\* *IMAGE.write().unwrap() = frame.data(0).to_vec()  (main.rs 78)
AcqWriteImage ==
    /\ pcA = "write"
    /\ ImageWriteAllowed
    /\ IMAGE' = frame.data
    /\ frame_log' = Append(frame_log, frame.data)
    /\ pcA' = "store_width"
    /\ UNCHANGED <<IMAGE_readers, IMAGE_WIDTH, POINTS, POINTS_readers,
                   POINTS_poisoned, SETTINGS, texture, frame, nframes, det,
                   render, width_src, data_from, width_from, snap_after_exit,
                   det_panic, edit_log, lists_log, last_store, scene>>

\* IMAGE_WIDTH.store(..) and image.set(..) on the display texture, which no
\* other step of the model reads (main.rs 79-87)
AcqStoreWidth ==
    /\ pcA = "store_width"
    /\ IMAGE_WIDTH' = frame.width
    /\ width_src' = nframes
    /\ texture' = nframes
    /\ frame' = NoFrame
    /\ pcA' = "decode"
    /\ UNCHANGED <<IMAGE, IMAGE_readers, POINTS, POINTS_readers,
                   POINTS_poisoned, SETTINGS, nframes, det, render, frame_log,
                   data_from, width_from, snap_after_exit, det_panic, edit_log,
                   lists_log, last_store, scene>>

Acquisition ==
    \/ AcqOpen
    \/ AcqOpenFail
    \/ AcqDecode
    \/ AcqDecodeFail
    \/ AcqWriteImage
    \/ AcqStoreWidth

(***************************************************************************)
(* Detection thread (main.rs 92-167).                                      *)
(***************************************************************************)
\* the stages whose Result is unwrapped (main.rs 114, 119, 130, 141, 146, 152)
FallibleStages == {"mat", "cvt", "in_range", "contours", "regions"}

\* variant: the loop is entered again after a panic
AfterPanicRestart == "sleep"

\* where the thread goes when an unwrap() panics: the closure ends
AfterPanic == "dead"

\* In `*POINTS.write().unwrap() = contours.iter()...collect()` the assigned
\* value is evaluated before the assignee, so write() is called once collect()
\* has returned: no unwrap() of the closure runs under the write guard.
WriteGuardSpansCollect == FALSE

\* variant: the settings copied once, before the loop
LoadSettingCached(f) == InitSettings[f]

\* a read of one field through `&SETTINGS` (main.rs 122-126).  SETTINGS is a
\* static mut that the render thread writes with no synchronisation; a field
\* is one aligned f64, read and written by one machine access each, so a read
\* racing with a write gives the value before or the value after it: the two
\* orders of the read step and the write step.
LoadSetting(f) == SETTINGS[f]

\* variant: the new regions appended to the stored ones
StoredListMerged(old, new) == old \o new

\* what the assignment to *POINTS leaves in the list (main.rs 143)
StoredList(old, new) == new

\* variant: the thread returns when it finds no frame
AfterSkipEnds == "dead"

\* where `continue` takes the thread: back to the head of the loop, the
\* sleep of the next cycle (main.rs 102-104, 94-95)
AfterSkip == "sleep"

\* variant: a cycle started by a timer, whatever the previous one is doing
CycleMayStartAnytime == pcD # "dead"

\* the loop is one thread: sleep() of the next cycle is called only when the
\* body of the previous pass has ended (main.rs 94-95, 165)
CycleMayStart == pcD = "sleep"

\* variant: the read guard bound to a local that lives to the end of the pass
ReadersAfterCloneKept(n) == n

\* the temporary guard of `IMAGE.read().unwrap().clone()` is dropped at the
\* end of the statement (main.rs 97)
ReadersAfterClone(n) == n - 1

\* thread::sleep(100 ms) returns (main.rs 95)
DetSleep ==
    /\ CycleMayStart
    /\ ncycles < MaxCycles
    /\ ncycles' = ncycles + 1
    /\ pcD' = "clone"
    /\ UNCHANGED <<shared, acq, image_data, clone_len, width, image, hsv_image,
                   scalars, mask, contours, regions, render, history>>

\* IMAGE.read().unwrap().clone(): the guard is taken and the copy begins
\* (main.rs 97)
DetCloneBegin ==
    /\ pcD = "clone"
    /\ IMAGE_readers' = IMAGE_readers + 1
    /\ clone_len' = Len(IMAGE)
    /\ image_data' = SubSeq(IMAGE, 1, Len(IMAGE) \div 2)
    /\ data_from' = Len(frame_log)
    /\ snap_after_exit' = (pcA = "dead")
    /\ pcD' = "cloning"
    /\ UNCHANGED <<IMAGE, IMAGE_WIDTH, POINTS, POINTS_readers, POINTS_poisoned,
                   SETTINGS, texture, acq, width, image, hsv_image, scalars,
                   mask, contours, regions, ncycles, render, frame_log,
                   width_src, width_from, det_panic, edit_log, lists_log,
                   last_store, scene>>

\* the copy ends and the read guard is dropped (main.rs 97)
DetCloneEnd ==
    /\ pcD = "cloning"
    /\ image_data' = image_data \o
            [i \in 1..(clone_len - Len(image_data)) |->
                ByteAt(IMAGE, Len(image_data) + i)]
    /\ IMAGE_readers' = ReadersAfterClone(IMAGE_readers)
    /\ pcD' = "load_width"
    /\ UNCHANGED <<IMAGE, IMAGE_WIDTH, POINTS, POINTS_readers, POINTS_poisoned,
                   SETTINGS, texture, acq, clone_len, width, image, hsv_image,
                   scalars, mask, contours, regions, ncycles, render, history>>

\* IMAGE_WIDTH.load(..) gives 0: continue (main.rs 100-104)
DetSkip ==
    /\ pcD = "load_width"
    /\ IMAGE_WIDTH = 0
    /\ width_from' = width_src
    /\ DropLocals
    /\ pcD' = AfterSkip
    /\ UNCHANGED <<shared, acq, ncycles, render, frame_log, width_src,
                   data_from, snap_after_exit, det_panic, edit_log, lists_log,
                   last_store, scene>>

\* IMAGE_WIDTH.load(..) gives a width (main.rs 100)
DetLoadWidth ==
    /\ pcD = "load_width"
    /\ IMAGE_WIDTH # 0
    /\ width' = IMAGE_WIDTH
    /\ width_from' = width_src
    /\ pcD' = "mat"
    /\ UNCHANGED <<shared, acq, image_data, clone_len, image, hsv_image,
                   scalars, mask, contours, regions, ncycles, render, frame_log,
                   width_src, data_from, snap_after_exit, det_panic, edit_log,
                   lists_log, last_store, scene>>

\* Mat::new_rows_cols_with_data(len / width / 3, width, ..) (main.rs 106-115)
DetMat ==
    /\ pcD = "mat"
    /\ image' = new_rows_cols_with_data(image_data, width)
    /\ pcD' = "cvt"
    /\ UNCHANGED <<shared, acq, image_data, clone_len, width, hsv_image,
                   scalars, mask, contours, regions, ncycles, render, history>>

\* cvt_color(&image, &mut hsv_image, COLOR_RGB2HSV, 0).unwrap() and the drop
\* of image and image_data (main.rs 118-120); cvt_color rejects an empty
\* source, and the unwrap then panics
DetCvtColor ==
    /\ pcD = "cvt"
    /\ IF image.rows = 0
       THEN /\ pcD' = AfterPanic
            /\ det_panic' = [stage |-> "cvt", cause |-> "empty",
                             after_exit |-> pcA = "dead"]
            /\ DropLocals
       ELSE /\ hsv_image' = cvt_color(image)
            /\ image' = NoMat
            /\ image_data' = <<>>
            /\ pcD' = "settings"
            /\ UNCHANGED <<clone_len, width, scalars, mask, contours, regions,
                           det_panic>>
    /\ UNCHANGED <<shared, acq, ncycles, render, frame_log, width_src,
                   data_from, width_from, snap_after_exit, edit_log, lists_log,
                   last_store, scene>>

\* one field of SETTINGS is read into lower_green / upper_green, in the order
\* lower_h, lower_s, lower_v, upper_h, upper_s, upper_v (main.rs 122-126)
DetReadSetting ==
    /\ pcD = "settings"
    /\ scalars' = Append(scalars, LoadSetting(Fields[Len(scalars) + 1]))
    /\ pcD' = IF Len(scalars) = 5 THEN "in_range" ELSE "settings"
    /\ UNCHANGED <<shared, acq, image_data, clone_len, width, image, hsv_image,
                   mask, contours, regions, ncycles, render, history>>

lower_green == SubSeq(scalars, 1, 3)

upper_green == SubSeq(scalars, 4, 6)

\* in_range(&hsv_image, &lower_green, &upper_green, &mut mask) (main.rs 129-130)
DetInRange ==
    /\ pcD = "in_range"
    /\ mask' = in_range(hsv_image, lower_green, upper_green)
    /\ pcD' = "contours"
    /\ UNCHANGED <<shared, acq, image_data, clone_len, width, image, hsv_image,
                   scalars, contours, regions, ncycles, render, history>>

\* find_contours(&mask, &mut contours, RETR_EXTERNAL, ..) (main.rs 133-141)
DetFindContours ==
    /\ pcD = "contours"
    /\ contours' = find_contours(mask)
    /\ pcD' = "regions"
    /\ UNCHANGED <<shared, acq, image_data, clone_len, width, image, hsv_image,
                   scalars, mask, regions, ncycles, render, history>>

\* contours.iter().map(..).filter(..).collect() (main.rs 143-164, the value)
DetRegions ==
    /\ pcD = "regions"
    /\ regions' = CollectRegions(contours)
    /\ pcD' = "store"
    /\ UNCHANGED <<shared, acq, image_data, clone_len, width, image, hsv_image,
                   scalars, mask, contours, ncycles, render, history>>

\* *POINTS.write().unwrap() = <the list>: the guard is taken, the list is
\* replaced, the guard is dropped; the loop body ends (main.rs 143, 165)
DetStore ==
    /\ pcD = "store"
    /\ PointsWriteAllowed
    /\ IF POINTS_poisoned
       THEN /\ pcD' = AfterPanic
            /\ det_panic' = [stage |-> "store", cause |-> "poisoned",
                             after_exit |-> pcA = "dead"]
            /\ UNCHANGED <<POINTS, lists_log, last_store>>
       ELSE /\ POINTS' = StoredList(POINTS, regions)
            /\ lists_log' = lists_log \cup {regions}
            /\ last_store' = [mask_off |-> MaskAllOff(mask), replaced |-> POINTS]
            /\ pcD' = "sleep"
            /\ UNCHANGED det_panic
    /\ DropLocals
    /\ UNCHANGED <<IMAGE, IMAGE_readers, IMAGE_WIDTH, POINTS_readers,
                   POINTS_poisoned, SETTINGS, texture, acq, ncycles, render,
                   frame_log, width_src, data_from, width_from,
                   snap_after_exit, edit_log, scene>>

\* one of the unwrap()s of the cycle meets an Err and panics
DetPanic ==
    /\ pcD \in FallibleStages
    /\ pcD' = AfterPanic
    /\ det_panic' = [stage |-> pcD, cause |-> "fault", after_exit |-> pcA = "dead"]
    /\ POINTS_poisoned' =
          (POINTS_poisoned \/ (pcD = "regions" /\ WriteGuardSpansCollect))
    /\ DropLocals
    /\ UNCHANGED <<IMAGE, IMAGE_readers, IMAGE_WIDTH, POINTS, POINTS_readers,
                   SETTINGS, texture, acq, ncycles, render, frame_log,
                   width_src, data_from, width_from, snap_after_exit, edit_log,
                   lists_log, last_store, scene>>

Detection ==
    \/ DetSleep
    \/ DetCloneBegin
    \/ DetCloneEnd
    \/ DetSkip
    \/ DetLoadWidth
    \/ DetMat
    \/ DetCvtColor
    \/ DetReadSetting
    \/ DetInRange
    \/ DetFindContours
    \/ DetRegions
    \/ DetStore
    \/ DetPanic

(***************************************************************************)
(* Render thread: CalibratorApp::update (main.rs 173-215).                 *)
(***************************************************************************)
\* what the iterator reads at index i of the list; past its end the memory
\* is not the list's any more
FreedRect == [min |-> <<NaN, NaN>>, max |-> <<NaN, NaN>>]

RectAt(v, i) == IF i <= Len(v) THEN v[i] ELSE FreedRect

\* the values an operator gives a field in the settings window, within the
\* field's clamp range
EditChoices == {<<"lower_h", 800>>, <<"lower_h", 604>>}

\* POINTS.read().unwrap().iter(): the read guard is taken (main.rs 185)
RenderBeginRead ==
    /\ pcR = "idle"
    /\ npaints < MaxPaints
    /\ npaints' = npaints + 1
    /\ IF POINTS_poisoned
       THEN /\ pcR' = "dead"
            /\ UNCHANGED <<POINTS_readers, painted, paint_len>>
       ELSE /\ POINTS_readers' = POINTS_readers + 1
            /\ paint_len' = Len(POINTS)
            /\ painted' = <<>>
            /\ pcR' = "painting"
    /\ UNCHANGED <<IMAGE, IMAGE_readers, IMAGE_WIDTH, POINTS, POINTS_poisoned,
                   SETTINGS, texture, acq, det, nedits, history>>

\* one pass of the loop body: rect_stroke(*point, ..) (main.rs 185-188)
RenderPaint ==
    /\ pcR = "painting"
    /\ Len(painted) < paint_len
    /\ painted' = Append(painted, RectAt(POINTS, Len(painted) + 1))
    /\ UNCHANGED <<shared, acq, det, pcR, paint_len, npaints, nedits, history>>

\* the loop ends and the read guard is dropped (main.rs 188)
RenderEndRead ==
    /\ pcR = "painting"
    /\ Len(painted) = paint_len
    /\ POINTS_readers' = POINTS_readers - 1
    /\ painted' = <<>>
    /\ paint_len' = 0
    /\ pcR' = "settings"
    /\ UNCHANGED <<IMAGE, IMAGE_readers, IMAGE_WIDTH, POINTS, POINTS_poisoned,
                   SETTINGS, texture, acq, det, npaints, nedits, history>>

\* a DragValue writes its clamped value through `&mut SETTINGS`, then
\* request_repaint() (main.rs 194-213)
RenderEdit ==
    /\ pcR = "settings"
    /\ nedits < MaxEdits
    /\ \E e \in EditChoices :
          /\ e[2] \in ClampRange(e[1])
          /\ SETTINGS' = [SETTINGS EXCEPT ![e[1]] = e[2]]
          /\ edit_log' = Append(edit_log, e)
    /\ nedits' = nedits + 1
    /\ pcR' = "idle"
    /\ UNCHANGED <<IMAGE, IMAGE_readers, IMAGE_WIDTH, POINTS, POINTS_readers,
                   POINTS_poisoned, texture, acq, det, painted, paint_len,
                   npaints, frame_log, width_src, data_from, width_from,
                   snap_after_exit, det_panic, lists_log, last_store, scene>>

\* no widget is changed in this pass; request_repaint() (main.rs 191-213)
RenderNoEdit ==
    /\ pcR = "settings"
    /\ pcR' = "idle"
    /\ UNCHANGED <<shared, acq, det, painted, paint_len, npaints, nedits,
                   history>>

Render ==
    \/ RenderBeginRead
    \/ RenderPaint
    \/ RenderEndRead
    \/ RenderEdit
    \/ RenderNoEdit

Next == Acquisition \/ Detection \/ Render

Spec == Init /\ [][Next]_vars

(***************************************************************************)
(* The detection cycle alone, on painted frames: the acquisition thread    *)
(* has published one frame (or none) and ended, the settings window has    *)
(* made at most one edit, and the detection thread runs.  The frame is a   *)
(* GridW x GridH picture of at most two disjoint solid rectangles of one   *)
(* colour on a background of another.                                      *)
(***************************************************************************)
SceneRects ==
    {[x0 |-> x, y0 |-> y, w |-> w, h |-> h] :
        x \in 0..(GridW - 1), y \in 0..(GridH - 1), w \in 1..GridW, h \in 1..GridH}

InGrid(r) == r.x0 + r.w <= GridW /\ r.y0 + r.h <= GridH

Cells(r) == {<<x, y>> : x \in r.x0..(r.x0 + r.w - 1), y \in r.y0..(r.y0 + r.h - 1)}

Scenes ==
    LET R == {r \in SceneRects : InGrid(r)}
    IN  {{}} \cup {{r} : r \in R}
             \cup {{pr[1], pr[2]} :
                      pr \in {q \in R \X R : Cells(q[1]) \cap Cells(q[2]) = {}}}

\* <<colour of the rectangles, colour of the background>>
SceneColours == {<<Green, Black>>, <<Green, DimGreen>>, <<DimGreen, Black>>}

\* the edits made before the cycle runs
SceneEdits == {<<>>, <<<<"lower_v", 500>>>>, <<<<"lower_h", 800>>>>}

PaintFrame(rects, fg, bg) ==
    [i \in 1..(GridW * GridH * 3) |->
        LET p == (i - 1) \div 3
            cell == <<p % GridW, p \div GridW>>
        IN  (IF \E r \in rects : cell \in Cells(r) THEN fg ELSE bg)[((i - 1) % 3) + 1]]

RECURSIVE ApplyEdits(_, _)
ApplyEdits(st, edits) ==
    IF edits = <<>> THEN st
    ELSE ApplyEdits([st EXCEPT ![Head(edits)[1]] = Head(edits)[2]], Tail(edits))

InitDetect ==
    /\ scene \in {NoScene} \cup
          {[rects |-> rs, fg |-> col[1], bg |-> col[2], painted |-> TRUE] :
              rs \in Scenes, col \in SceneColours}
    /\ edit_log \in SceneEdits
    /\ IMAGE = IF scene.painted THEN PaintFrame(scene.rects, scene.fg, scene.bg)
               ELSE <<>>
    /\ IMAGE_readers = 0
    /\ IMAGE_WIDTH = IF scene.painted THEN GridW ELSE 0
    /\ POINTS = <<>>
    /\ POINTS_readers = 0
    /\ POINTS_poisoned = FALSE
    /\ SETTINGS = ApplyEdits(InitSettings, edit_log)
    /\ texture = IF scene.painted THEN 1 ELSE 0
    /\ pcA = "dead"
    /\ frame = NoFrame
    /\ nframes = IF scene.painted THEN 1 ELSE 0
    /\ pcD = "sleep"
    /\ image_data = <<>>
    /\ clone_len = 0
    /\ width = 0
    /\ image = NoMat
    /\ hsv_image = NoMat
    /\ scalars = <<>>
    /\ mask = NoMat
    /\ contours = <<>>
    /\ regions = <<>>
    /\ ncycles = MaxCycles - 1
    /\ pcR = "idle"
    /\ painted = <<>>
    /\ paint_len = 0
    /\ npaints = 0
    /\ nedits = Len(edit_log)
    /\ frame_log = IF scene.painted THEN <<IMAGE>> ELSE <<>>
    /\ width_src = IF scene.painted THEN 1 ELSE 0
    /\ data_from = 0
    /\ width_from = 0
    /\ snap_after_exit = FALSE
    /\ det_panic = NoPanic
    /\ lists_log = {}
    /\ last_store = [mask_off |-> FALSE, replaced |-> <<>>]

NextDetect == Detection

SpecDetect == InitDetect /\ [][NextDetect]_vars

(***************************************************************************)
(* The detection cycle alone, at its width load, holding a copied buffer   *)
(* of each length 0..MaxLen with each stored width 1..MaxWidth: the bytes  *)
(* of an earlier publish and the width of the latest one (or the initial   *)
(* empty vector and width 0).  The cycle goes on from there and a second   *)
(* cycle follows it.                                                       *)
(***************************************************************************)
\* len bytes of pixels of one colour
SolidBytes(len, px) == [i \in 1..len |-> px[((i - 1) % 3) + 1]]

MatInputs ==
    {<<0, 0>>} \cup {<<len, w>> : len \in 0..MaxLen, w \in 1..MaxWidth}

InitMat ==
    \E in \in MatInputs, px \in {Green, Black} :
        /\ image_data = SolidBytes(in[1], px)
        /\ clone_len = in[1]
        /\ IMAGE_WIDTH = in[2]
        /\ IMAGE = IF in[2] = 0 THEN <<>> ELSE SolidFrame(in[2], 1, px).data
        /\ frame_log = (IF in[1] = 0 THEN <<>> ELSE <<image_data>>)
                           \o (IF in[2] = 0 THEN <<>> ELSE <<IMAGE>>)
        /\ data_from = IF in[1] = 0 THEN 0 ELSE 1
        /\ width_src = Len(frame_log)
        /\ nframes = Len(frame_log)
        /\ texture = Len(frame_log)
        /\ IMAGE_readers = 0
        /\ POINTS = <<>>
        /\ POINTS_readers = 0
        /\ POINTS_poisoned = FALSE
        /\ SETTINGS = InitSettings
        /\ pcA = "decode"
        /\ frame = NoFrame
        /\ pcD = "load_width"
        /\ width = 0
        /\ image = NoMat
        /\ hsv_image = NoMat
        /\ scalars = <<>>
        /\ mask = NoMat
        /\ contours = <<>>
        /\ regions = <<>>
        /\ ncycles = MaxCycles - 1
        /\ pcR = "idle"
        /\ painted = <<>>
        /\ paint_len = 0
        /\ npaints = 0
        /\ nedits = 0
        /\ width_from = 0
        /\ snap_after_exit = FALSE
        /\ det_panic = NoPanic
        /\ edit_log = <<>>
        /\ lists_log = {}
        /\ last_store = [mask_off |-> FALSE, replaced |-> <<>>]
        /\ scene = NoScene

NextMat == Detection

SpecMat == InitMat /\ [][NextMat]_vars

(***************************************************************************)
(* Properties.                                                             *)
(***************************************************************************)
\* the bytes publish number n wrote; 0 is the initial empty vector
PublishedBytes(n) == IF n = 0 THEN <<>> ELSE frame_log[n]

\* C1: the bytes a detection cycle has copied out of IMAGE are exactly the
\* bytes written by one publish (the one IMAGE held when the copy began), or
\* the initial empty vector; never a mix of two publishes.
C1_SnapshotOfOnePublish ==
    pcD \in {"load_width", "mat", "cvt"} =>
        /\ data_from \in 0..Len(frame_log)
        /\ image_data = PublishedBytes(data_from)

\* a cycle holds a complete copy of frame 1 while frame 2 has been published
C1_Witness ==
    /\ pcD = "load_width"
    /\ data_from = 1
    /\ Len(frame_log) = 2
    /\ image_data = frame_log[1]
    /\ frame_log[1] # frame_log[2]

\* C2: in every cycle that builds an image, the bytes and the width it builds
\* the image from were written by the same frame publish.
C2_BytesAndWidthOfOneFrame ==
    pcD \in {"mat", "cvt"} => data_from = width_from

\* the value field f holds after the edits of the log: the last one written
\* to f, or the initial value
RECURSIVE LastWritten(_, _)
LastWritten(log, f) ==
    IF log = <<>> THEN InitSettings[f]
    ELSE IF log[Len(log)][1] = f THEN log[Len(log)][2]
    ELSE LastWritten(SubSeq(log, 1, Len(log) - 1), f)

\* C3: whenever a cycle reads a configuration field, it gets the value of the
\* last write to that field completed before the read (the initial value if
\* there was none): no cycle uses an older, cached value.
C3_CycleReadsLastWrite ==
    [][(pcD = "settings" /\ Len(scalars') = Len(scalars) + 1) =>
          scalars'[Len(scalars')] = LastWritten(edit_log, Fields[Len(scalars')])]_vars

\* a cycle has stored regions found with the initial bounds, and a later
\* cycle has read the edited lower_h
C3_Witness ==
    /\ pcD = "in_range"
    /\ ncycles >= 2
    /\ POINTS # <<>>
    /\ edit_log = <<<<"lower_h", 800>>>>
    /\ scalars[1] = 800

\* C4: the list the render thread is reading is the initial empty list or one
\* whole list stored by one detection cycle, and every change of POINTS puts
\* the list of the storing cycle in place of the old one.
C4_ReadsOneWholeList ==
    /\ [](pcR = "painting" =>
            \E l \in lists_log \cup {<<>>} :
                /\ Len(l) = paint_len
                /\ painted = SubSeq(l, 1, Len(painted)))
    /\ [][POINTS' # POINTS => (pcD = "store" /\ POINTS' = regions)]_vars

\* the render thread has read a whole non-empty list while the detection
\* thread waits to store a different one
C4_Witness ==
    /\ pcR = "painting"
    /\ paint_len > 0
    /\ painted = POINTS
    /\ pcD = "store"
    /\ regions # POINTS

\* the regions of the contours of non-zero area, in order
RECURSIVE NonZeroAreaRegions(_, _)
NonZeroAreaRegions(cs, i) ==
    IF i > Len(cs) THEN <<>>
    ELSE (IF moments(cs[i]).m00 # 0 THEN <<RegionOf(cs[i])>> ELSE <<>>)
            \o NonZeroAreaRegions(cs, i + 1)

\* C5: the list a cycle is about to publish holds the regions of the contours
\* whose zeroth moment is not zero and nothing else: a contour of zero area
\* contributes no region.
C5_NoZeroAreaRegion ==
    pcD = "store" => regions = NonZeroAreaRegions(contours, 1)

\* a cycle found one contour of zero area and one of non-zero area, and kept
\* one region
C5_Witness ==
    /\ pcD = "store"
    /\ Len(contours) = 2
    /\ \E i \in 1..2 : moments(contours[i]).m00 = 0
    /\ Len(regions) = 1

\* a pixel colour lies within the configured band: each HSV channel within
\* its lower and upper setting, inclusive
InBand(px, st) ==
    LET hsv == RGB2HSV(px)
    IN  /\ st.lower_h <= 10 * hsv[1] /\ 10 * hsv[1] <= st.upper_h
        /\ st.lower_s <= 10 * hsv[2] /\ 10 * hsv[2] <= st.upper_s
        /\ st.lower_v <= 10 * hsv[3] /\ 10 * hsv[3] <= st.upper_v

\* the frame under test shows rectangles inside the band on a background
\* outside it
SceneInBand ==
    /\ scene.painted
    /\ scene.rects # {}
    /\ InBand(scene.fg, SETTINGS)
    /\ ~InBand(scene.bg, SETTINGS)

\* C6: for a frame of disjoint solid rectangles inside the band on a
\* background outside it, the cycle publishes exactly one region per rectangle.
C6_OneRegionPerRectangle ==
    (pcD = "store" /\ SceneInBand) => Len(regions) = Cardinality(scene.rects)

\* |x - a / 2| <= 1 for a finite x
WithinOnePixelOfHalf(x, a) == FIsFinite(x) /\ Abs(2 * x.n - a * x.d) <= 2 * x.d

\* (x + y) / 2 and y - x
FMid(x, y) ==
    IF FIsFinite(x) /\ FIsFinite(y) THEN Rat(x.n * y.d + y.n * x.d, 2 * x.d * y.d)
    ELSE NaN

FDiff(x, y) ==
    IF FIsFinite(x) /\ FIsFinite(y) THEN Rat(y.n * x.d - x.n * y.d, x.d * y.d)
    ELSE NaN

\* the region lies within one pixel of rectangle r: its centre of
\* (x0 + w/2, y0 + h/2), its corner of (x0, y0), its size of (w, h)
RegionMatches(reg, r) ==
    /\ WithinOnePixelOfHalf(FMid(reg.min[1], reg.max[1]), 2 * r.x0 + r.w)
    /\ WithinOnePixelOfHalf(FMid(reg.min[2], reg.max[2]), 2 * r.y0 + r.h)
    /\ WithinOnePixelOfHalf(reg.min[1], 2 * r.x0)
    /\ WithinOnePixelOfHalf(reg.min[2], 2 * r.y0)
    /\ WithinOnePixelOfHalf(FDiff(reg.min[1], reg.max[1]), 2 * r.w)
    /\ WithinOnePixelOfHalf(FDiff(reg.min[2], reg.max[2]), 2 * r.h)

\* C7: for a frame of one solid rectangle (x0, y0, w, h) inside the band on a
\* background outside it, a region the cycle publishes has its centre within
\* one pixel of (x0 + w/2, y0 + h/2) and its box within one pixel of
\* (x0, y0, w, h).
C7_RegionMatchesRectangle ==
    (pcD = "store" /\ SceneInBand /\ Cardinality(scene.rects) = 1) =>
        \A i \in 1..Len(regions) :
            \A r \in scene.rects : RegionMatches(regions[i], r)

\* a cycle is about to publish the one region of a rectangle that does not
\* start at the origin and is not square
C7_Witness ==
    /\ pcD = "store"
    /\ SceneInBand
    /\ Len(regions) = 1
    /\ \E r \in scene.rects :
          /\ scene.rects = {r}
          /\ r.x0 > 0
          /\ r.w # r.h
          /\ RegionMatches(regions[1], r)

\* C8: a cycle whose mask is entirely off stores the empty list, whatever was
\* stored before.
C8_MaskOffStoresEmpty ==
    [][(pcD = "store" /\ pcD' = "sleep" /\ MaskAllOff(mask)) => POINTS' = <<>>]_vars

\* a cycle with an all-off mask has replaced a non-empty list by the empty one
C8_Witness ==
    /\ last_store.mask_off
    /\ last_store.replaced # <<>>
    /\ POINTS = <<>>
    /\ pcD = "sleep"

\* C9: once a stage of a cycle has failed, the detection thread is dead and
\* stays dead, POINTS never changes again, the failure holds no read guard on
\* IMAGE and leaves POINTS unpoisoned, and the render thread never fails.
C9_FailureStopsDetectionOnly ==
    /\ [][det_panic.stage # "none" =>
             (pcD = "dead" /\ pcD' = "dead" /\ POINTS' = POINTS)]_vars
    /\ [](det_panic.stage # "none" =>
             (pcD = "dead" /\ IMAGE_readers = 0 /\ ImageWriteAllowed
              /\ ~POINTS_poisoned))
    /\ [](pcR # "dead")

\* the detection thread died after storing a list; the acquisition thread is
\* publishing a later frame and the render thread has read the frozen list
C9_Witness ==
    /\ pcD = "dead"
    /\ det_panic.stage = "regions"
    /\ POINTS # <<>>
    /\ pcA = "store_width"
    /\ Len(frame_log) = 2
    /\ pcR = "painting"
    /\ painted = POINTS

\* C10: after the acquisition thread has ended on a stream failure, the
\* detection thread keeps running: it does not fail on the frame it finds
\* (a failure after that point is a library fault, not one of the frame).
C10_DetectionKeepsRunning ==
    det_panic.after_exit => det_panic.cause = "fault"

\* What does hold once the acquisition thread has ended: it stays ended, IMAGE
\* and IMAGE_WIDTH never change again, and a cycle that takes its snapshot
\* after that point reads the bytes and the width of the last frame and fails
\* on a library fault only.
AcquisitionEndIsFinal ==
    /\ [][pcA = "dead" =>
             (pcA' = "dead" /\ IMAGE' = IMAGE /\ IMAGE_WIDTH' = IMAGE_WIDTH)]_vars
    /\ []((snap_after_exit /\ pcD \in {"mat", "cvt"}) =>
             (data_from = width_from /\ data_from = Len(frame_log)))
    /\ []((pcD = "dead" /\ snap_after_exit) => det_panic.cause = "fault")

\* C11: a detection cycle that reads width zero is skipped: its step leaves
\* POINTS (and its guards) unchanged, builds no image, raises no failure, and
\* puts the thread at the sleep that begins the next cycle.
C11_ZeroWidthCycleSkipped ==
    [][(pcD = "load_width" /\ IMAGE_WIDTH = 0 /\ pcD' # pcD) =>
          /\ pcD' = "sleep"
          /\ POINTS' = POINTS
          /\ POINTS_poisoned' = POINTS_poisoned
          /\ IMAGE_readers' = 0
          /\ image' = NoMat
          /\ regions' = <<>>
          /\ det_panic' = NoPanic
          /\ ncycles' = ncycles]_vars

\* the first cycle was skipped (the width is still zero after it) although
\* the bytes of a frame were already written, and the second cycle has begun
C11_Witness ==
    /\ pcD = "clone"
    /\ ncycles = 2
    /\ IMAGE_WIDTH = 0
    /\ IMAGE # <<>>
    /\ det_panic = NoPanic
    /\ POINTS = <<>>

\* C12: for every buffer length L and every width W > 0, the image the cycle
\* builds has floor(L / (W * 3)) rows of W pixels over the first rows * W * 3
\* bytes of the buffer: a trailing partial row is left out, and building the
\* image from such a buffer is not a failure.
C12_HeightIsFloor ==
    /\ pcD = "cvt" =>
          /\ width > 0
          /\ image.rows = Len(image_data) \div (width * 3)
          /\ image.cols = width
          /\ image.data = SubSeq(image_data, 1, image.rows * width * 3)
    /\ (pcD = "dead" /\ det_panic.stage = "mat") => det_panic.cause = "fault"

\* an image of two rows built from a buffer with a partial third row
C12_Witness ==
    /\ pcD = "cvt"
    /\ width = 2
    /\ Len(image_data) = 13
    /\ image.rows = 2
    /\ Len(image.data) = 12

\* C13: a cycle that has passed the width-zero check holds bytes written by
\* a publish, never the initial empty vector, and the image it has built
\* has at least one row.
C13_CycleHoldsReceivedFrame ==
    pcD = "cvt" =>
        /\ data_from >= 1
        /\ image_data # <<>>
        /\ image.rows >= 1

\* C14: detection cycles never overlap.  A cycle starts (the cycle count
\* grows, by one) only when the thread is at its sleep with nothing of the
\* previous cycle left; the thread reaches that sleep only by the store of
\* the cycle's list or by the skip; and POINTS changes only by the store of
\* the one cycle in progress, so the stores happen in cycle order.
C14_CyclesDoNotOverlap ==
    /\ [][ncycles' # ncycles =>
            /\ ncycles' = ncycles + 1
            /\ pcD = "sleep" /\ pcD' = "clone"
            /\ IMAGE_readers = 0
            /\ image_data = <<>> /\ image = NoMat /\ hsv_image = NoMat
            /\ mask = NoMat /\ contours = <<>> /\ regions = <<>>]_vars
    /\ [][(pcD' = "sleep" /\ pcD # "sleep") =>
            \/ pcD = "store" /\ POINTS' = regions
            \/ pcD = "load_width" /\ POINTS' = POINTS]_vars
    /\ [][POINTS' # POINTS =>
            (pcD = "store" /\ pcD' = "sleep" /\ ncycles' = ncycles)]_vars

\* the second cycle is about to store its list, after the first cycle has
\* stored a different one
C14_Witness ==
    /\ pcD = "store"
    /\ ncycles = 2
    /\ POINTS # <<>>
    /\ lists_log = {POINTS}
    /\ regions # POINTS

\* C15: in every reachable state, every region stored in POINTS has a finite
\* centre x, centre y, width and height (and finite corners): a region whose
\* centroid division gave NaN or an infinity is never stored.
C15_StoredRegionsFinite ==
    \A i \in 1..Len(POINTS) :
        /\ \A c \in 1..2 :
              /\ FIsFinite(POINTS[i].min[c])
              /\ FIsFinite(POINTS[i].max[c])
              /\ FIsFinite(FMid(POINTS[i].min[c], POINTS[i].max[c]))
              /\ FIsFinite(FDiff(POINTS[i].min[c], POINTS[i].max[c]))

\* a cycle on a frame of a 2x2 rectangle and a separate rectangle one pixel
\* wide, whose centroid division is 0/0, has stored one region
C15_Witness ==
    /\ pcD = "sleep"
    /\ scene.painted
    /\ scene.rects = {[x0 |-> 0, y0 |-> 0, w |-> 2, h |-> 2],
                      [x0 |-> 4, y0 |-> 0, w |-> 1, h |-> 2]}
    /\ InBand(scene.fg, SETTINGS)
    /\ ~InBand(scene.bg, SETTINGS)
    /\ Len(POINTS) = 1
    /\ lists_log = {POINTS}

\* channel c of pixel p of the converted image lies within the bounds the
\* cycle read, both inclusive (the bounds are in tenths)
ChannelWithin(p, c) ==
    LET v == 10 * hsv_image.data[3 * (p - 1) + c]
    IN  scalars[c] <= v /\ v <= scalars[c + 3]

\* C16: a pixel is on in the mask exactly when each of its three channel
\* values lies within that channel's lower and upper bound, both inclusive;
\* so when the lower bound of a channel is greater than its upper bound the
\* mask is entirely off.
C16_MaskIsInclusiveBand ==
    pcD = "contours" =>
        /\ \A p \in 1..(mask.rows * mask.cols) :
              (mask.data[p] = 255) <=> (\A c \in 1..3 : ChannelWithin(p, c))
        /\ (\E c \in 1..3 : scalars[c] > scalars[c + 3]) => MaskAllOff(mask)

\* the stages of a cycle between the copy of the bytes and the store
ComputingStages ==
    {"load_width", "mat", "cvt", "settings", "in_range", "contours", "regions"}

\* C17: no thread holds two of the shared guards at once.  The only read
\* guard on IMAGE is the detection thread's, held while it copies the bytes
\* and at no other stage (so not while it computes, and not when it takes
\* the write guard on POINTS to store); the only read guard on POINTS is the
\* render thread's, held while it paints.  So a publish is never blocked by
\* a cycle that is computing, and a thread that waits for a guard waits for
\* a holder that can go on and drop it: the threads cannot deadlock.
C17_GuardsAreShortAndSingle ==
    /\ IMAGE_readers = (IF pcD = "cloning" THEN 1 ELSE 0)
    /\ POINTS_readers = (IF pcR = "painting" THEN 1 ELSE 0)
    /\ pcD \in ComputingStages \cup {"store"} => ImageWriteAllowed
    /\ (pcA = "write" /\ ~ENABLED AcqWriteImage) => ENABLED DetCloneEnd
    /\ (pcD = "store" /\ ~ENABLED DetStore) =>
            (ENABLED RenderPaint \/ ENABLED RenderEndRead)

\* the detection thread waits to store while the render thread paints under
\* its read guard, and the acquisition thread is free to write the bytes
C17_Witness ==
    /\ pcD = "store"
    /\ pcR = "painting"
    /\ POINTS_readers = 1
    /\ ~PointsWriteAllowed
    /\ pcA = "write"
    /\ ImageWriteAllowed
    /\ IMAGE_readers = 0

\* C18: the image a cycle has built never extends past the buffer it was
\* built from: rows * cols * 3 is at most the length of the copied bytes,
\* whatever bytes and width the cycle read.
C18_ImageWithinBuffer ==
    pcD = "cvt" =>
        /\ image.rows * image.cols * 3 <= Len(image_data)
        /\ Len(image.data) = image.rows * image.cols * 3
        /\ image.cols = width

\* a cycle has built its image from the three bytes of one frame and the
\* width, 2, of another: the image has no row
C18_Witness ==
    /\ pcD = "cvt"
    /\ data_from >= 1
    /\ width_from # data_from
    /\ Len(image_data) = 3
    /\ width = 2
    /\ image.rows = 0

\* C19: in every state of the shared store, a non-zero IMAGE_WIDTH implies
\* that IMAGE has been written by a publish (the bytes of a frame are written
\* before its width is stored, and IMAGE holds the bytes of the latest
\* write); while no width has been stored, IMAGE_WIDTH is zero and POINTS is
\* empty.
C19_WidthImpliesPublishedBytes ==
    /\ IMAGE_WIDTH # 0 =>
          /\ width_src >= 1
          /\ Len(frame_log) >= width_src
          /\ IMAGE # <<>>
    /\ IMAGE = PublishedBytes(Len(frame_log))
    /\ width_src <= Len(frame_log)
    /\ width_src = 0 => (IMAGE_WIDTH = 0 /\ POINTS = <<>>)
    /\ frame_log = <<>> => (IMAGE = <<>> /\ IMAGE_WIDTH = 0 /\ POINTS = <<>>)

\* the bytes of the second frame are written and its width is not yet
\* stored: the stored width is the first frame's, and a list has been stored
C19_Witness ==
    /\ pcA = "store_width"
    /\ Len(frame_log) = 2
    /\ width_src = 1
    /\ IMAGE_WIDTH # 0
    /\ IMAGE = frame_log[2]
    /\ frame_log[2] # frame_log[1]
    /\ POINTS # <<>>

====
